---- MODULE Spec2Model ----
(***************************************************************************)
(* Vector database service (aws/vector-database/application).              *)
(*                                                                         *)
(* VectorService coordinates two backing stores: the OpenSearch "vectors"  *)
(* index (OpenSearchVectorRepository) and the PostgreSQL vector_metadata   *)
(* table (MetadataRepository).  APIHandler is the HTTP layer in front of   *)
(* it.  Every call of a repository method is one blocking request to a     *)
(* backing store; it either succeeds or raises, and the repository turns   *)
(* the exception into False / None / [].  Each such request is one step    *)
(* of the model, so that calls of several callers interleave at the        *)
(* stores exactly where the code lets them.                                *)
(***************************************************************************)
EXTENDS Naturals, Sequences, FiniteSets, TLC

VARIABLES
    index,          \* OpenSearch index 'vectors': id -> [vector, metadata]
    metaStore,      \* table vector_metadata: id -> metadata column (JSON text)
    pc,             \* per caller: where its current call stands
    event,          \* per caller: the HTTP event being handled, if any
    req,            \* per caller: the VectorService call being executed
    vector_success, \* per caller: local of VectorService.store_vector
    vector_data,    \* per caller: local of VectorService.get_vector
    ret,            \* per caller: value returned by the VectorService call
    response,       \* per caller: HTTP response of the handler, if any
    portCalls,      \* per caller: repository calls made by the current call
    lastStore,      \* per caller: its most recent completed store_vector call
    blindWrite      \* history: some store_vector call has written the metadata
                    \* row although its upsert of the index had failed

vars == <<index, metaStore, pc, event, req, vector_success, vector_data,
          ret, response, portCalls, lastStore, blindWrite>>

-----------------------------------------------------------------------------
(* Bounds of the model *)

\* Longest hit list the index returns in the model.
MaxHits == 2
\* Number of distinct similarity scores the index hands out in the model.
NumScores == 2

Callers == {1, 2}
Ids == {"v1", "v2"}
Vectors == {<<1, 2>>, <<2, 1>>}
KeyOrder == <<"title", "tag">>
Keys == {KeyOrder[i] : i \in 1..Len(KeyOrder)}

EmptyMetadata == [k \in {} |-> "A"]
MetadataInputs ==
    { EmptyMetadata,
      [k \in {"title"} |-> "A"],
      [k \in {"title", "tag"} |-> IF k = "title" THEN "B" ELSE "A"] }

\* VectorData values the callers submit.
Records ==
    { [id |-> "v1", vector |-> v, metadata |-> m] :
          v \in Vectors, m \in MetadataInputs }
    \cup { [id |-> "v2", vector |-> <<1, 2>>,
            metadata |-> [k \in {"title"} |-> "A"]] }

Scores == 1..NumScores

-----------------------------------------------------------------------------
(* Program constants *)

K_DEFAULT == 10
K_MIN == 1
K_MAX == 100
HTTP_OK == 200
HTTP_BAD_REQUEST == 400
HTTP_METHOD_NOT_ALLOWED == 405
HTTP_INTERNAL_SERVER_ERROR == 500

-----------------------------------------------------------------------------
(* Values *)

\* Optional[T]: None is the empty sequence, a value x is <<x>>.
None == <<>>
Some(x) == <<x>>

NoReq == [op |-> "none"]
NoEvent == [httpMethod |-> "none"]

\* dict.update: the keys of both, the argument's value where both have the key.
dict_update(base, other) ==
    [k \in DOMAIN base \cup DOMAIN other |->
        IF k \in DOMAIN other THEN other[k] ELSE base[k]]

\* json.dumps of a metadata dict: the text, as its sequence of key/value members.
json_dumps(m) ==
    LET ks == SelectSeq(KeyOrder, LAMBDA k : k \in DOMAIN m)
    IN  [i \in 1..Len(ks) |-> <<ks[i], m[ks[i]]>>]

\* json.loads of such a text: the dict; of a repeated key the last member wins.
json_loads(t) ==
    [k \in {t[i][1] : i \in 1..Len(t)} |->
        t[CHOOSE i \in 1..Len(t) :
            /\ t[i][1] = k
            /\ \A j \in 1..Len(t) : t[j][1] = k => j <= i][2]]

\* Insert-or-replace of one entry of a store.
Upsert(store, id, entry) ==
    [i \in DOMAIN store \cup {id} |-> IF i = id THEN entry ELSE store[i]]

-----------------------------------------------------------------------------
(* Inputs *)

\* SearchQuery values a caller of VectorService can construct (1 <= k <= 100).
SearchQueries ==
    { [vector |-> <<1, 2>>, k |-> k] : k \in {K_MIN, K_DEFAULT, K_MAX} }

\* int(text) for the texts of the 'k' query parameter the model submits;
\* a text outside the table is no integer literal (ValueError).
IntTexts == [t \in {"0", "1", "100", "101"} |->
                CASE t = "0" -> 0 [] t = "1" -> 1 [] t = "100" -> 100
                  [] t = "101" -> 101]
KTexts == DOMAIN IntTexts \cup {"abc"}

\* json.loads(text) for the texts of the 'vector' query parameter; a text
\* outside the table is no JSON (JSONDecodeError).
VectorTexts == [t \in {"[1, 2]"} |-> <<1, 2>>]

\* Request bodies of POST: a text that is no JSON, or the text of an object.
BodyObjects ==
    { [f \in {"id", "vector", "metadata"} |-> r[f]] : r \in Records }
    \cup { [f \in fs |-> IF f = "id" THEN "v1"
                         ELSE IF f = "vector" THEN <<1, 2>>
                         ELSE [k \in {"title"} |-> "A"]] :
              fs \in { {"id", "vector"}, {"id", "metadata"},
                       {"vector", "metadata"} } }
PostEvents ==
    { [httpMethod |-> "POST", body |-> [json |-> FALSE]] }
    \cup { [httpMethod |-> "POST", body |-> [json |-> TRUE, obj |-> o]] :
              o \in BodyObjects }

\* Events of GET: queryStringParameters is None or a dict of texts.
GetEvents ==
    { [httpMethod |-> "GET", queryStringParameters |-> None] }
    \cup { [httpMethod |-> "GET",
            queryStringParameters |-> Some([k \in {} |-> ""])],
           [httpMethod |-> "GET",
            queryStringParameters |-> Some([p \in {"vector"} |-> "oops"])],
           [httpMethod |-> "GET",
            queryStringParameters |-> Some([p \in {"vector"} |-> "[1, 2]"])] }
    \cup { [httpMethod |-> "GET",
            queryStringParameters |->
                Some([p \in {"vector", "k"} |->
                        IF p = "vector" THEN "[1, 2]" ELSE kt])] :
              kt \in KTexts }

OtherEvents == { [httpMethod |-> "DELETE"] }

Events == PostEvents \cup GetEvents \cup OtherEvents

-----------------------------------------------------------------------------
(* APIHandler: responses *)

_create_response(status_code, body) ==
    [statusCode |-> status_code, body |-> body]

NoResponse == [statusCode |-> 0]

\* _handle_post_request after store_vector has returned.
\* Variant: the outcome of store_vector is ignored and 200 is answered.
post_response_always_ok(success, vd) ==
    _create_response(HTTP_OK,
        [message |-> "Vector stored successfully", id |-> vd.id])

post_response(success, vd) ==
    IF success
    THEN _create_response(HTTP_OK,
             [message |-> "Vector stored successfully", id |-> vd.id])
    ELSE _create_response(HTTP_INTERNAL_SERVER_ERROR,
             [error |-> "Failed to store vector"])

\* Variant: an empty result list is answered as a server error.
get_response_empty_is_error(results) ==
    IF results = <<>>
    THEN _create_response(HTTP_INTERNAL_SERVER_ERROR,
             [error |-> "Internal server error"])
    ELSE _create_response(HTTP_OK,
             [results |-> [i \in 1..Len(results) |->
                              [id |-> results[i].id, score |-> results[i].score,
                               metadata |-> results[i].metadata]]])

\* _handle_get_request after search_vectors has returned.
get_response(results) ==
    _create_response(HTTP_OK,
        [results |-> [i \in 1..Len(results) |->
                         [id |-> results[i].id, score |-> results[i].score,
                          metadata |-> results[i].metadata]]])

-----------------------------------------------------------------------------
(* The initial state: both stores empty, no call in progress *)

Init ==
    /\ index = [i \in {} |-> 0]
    /\ metaStore = [i \in {} |-> 0]
    /\ pc = [c \in Callers |-> "idle"]
    /\ event = [c \in Callers |-> NoEvent]
    /\ req = [c \in Callers |-> NoReq]
    /\ vector_success = [c \in Callers |-> FALSE]
    /\ vector_data = [c \in Callers |-> None]
    /\ ret = [c \in Callers |-> None]
    /\ response = [c \in Callers |-> NoResponse]
    /\ portCalls = [c \in Callers |-> <<>>]
    /\ lastStore = [c \in Callers |-> None]
    /\ blindWrite = FALSE

-----------------------------------------------------------------------------
(* Bookkeeping of a call *)

\* A caller issues its calls one after the other.
Ready(c) == pc[c] \in {"idle", "done"}

\* A new call starts: the finished one, if it was a store_vector call, is
\* remembered as the caller's last store.
Start(c, ev, rq, at, resp) ==
    /\ Ready(c)
    /\ lastStore' =
         IF pc[c] = "done" /\ req[c].op = "store"
         THEN [lastStore EXCEPT ![c] =
                  Some([rec |-> req[c].rec, ret |-> ret[c],
                        calls |-> portCalls[c]])]
         ELSE lastStore
    /\ event' = [event EXCEPT ![c] = ev]
    /\ req' = [req EXCEPT ![c] = rq]
    /\ pc' = [pc EXCEPT ![c] = at]
    /\ vector_success' = [vector_success EXCEPT ![c] = FALSE]
    /\ vector_data' = [vector_data EXCEPT ![c] = None]
    /\ ret' = [ret EXCEPT ![c] = None]
    /\ response' = [response EXCEPT ![c] = resp]
    /\ portCalls' = [portCalls EXCEPT ![c] = <<>>]
    /\ UNCHANGED <<index, metaStore, blindWrite>>

\* The call of the service returns value; the handler, if the call came
\* through it, answers with resp.
Return(c, value, resp) ==
    /\ pc' = [pc EXCEPT ![c] = "done"]
    /\ ret' = [ret EXCEPT ![c] = value]
    /\ response' = [response EXCEPT ![c] =
                       IF event[c] = NoEvent THEN NoResponse ELSE resp]
    /\ UNCHANGED <<event, req, lastStore>>

Called(c, port, ok) ==
    portCalls' = [portCalls EXCEPT ![c] = Append(@, [port |-> port, ok |-> ok])]

-----------------------------------------------------------------------------
(* OpenSearchVectorRepository *)

\* Variant: the document is written without its metadata field.
index_store_vector_no_metadata(idx, vd, ok) ==
    IF ok
    THEN Upsert(idx, vd.id, [vector |-> vd.vector, metadata |-> EmptyMetadata])
    ELSE idx

\* Variant: the vector of an existing document is extended, not replaced.
index_store_vector_accumulate(idx, vd, ok) ==
    IF ok
    THEN Upsert(idx, vd.id,
                [vector |-> IF vd.id \in DOMAIN idx
                            THEN idx[vd.id].vector \o vd.vector
                            ELSE vd.vector,
                 metadata |-> vd.metadata])
    ELSE idx

\* store_vector: client.index writes the document under the id, replacing
\* any document of that id; if the request raises, nothing is written.
\* Variant: the index is created anew with the stored document alone.
index_store_vector_recreate(idx, vd, ok) ==
    IF ok
    THEN [i \in {vd.id} |-> [vector |-> vd.vector, metadata |-> vd.metadata]]
    ELSE idx

\* Variant: a document already in the index is kept (create, not upsert).
index_store_vector_first_wins(idx, vd, ok) ==
    IF ok /\ vd.id \notin DOMAIN idx
    THEN Upsert(idx, vd.id, [vector |-> vd.vector, metadata |-> vd.metadata])
    ELSE idx

index_store_vector(idx, vd, ok) ==
    IF ok
    THEN Upsert(idx, vd.id, [vector |-> vd.vector, metadata |-> vd.metadata])
    ELSE idx

\* Variant: an id without a document yields an empty record, not None.
index_get_vector_default(idx, vector_id, ok) ==
    IF ~ok THEN None
    ELSE IF vector_id \in DOMAIN idx
    THEN Some([id |-> vector_id, vector |-> idx[vector_id].vector,
               metadata |-> idx[vector_id].metadata])
    ELSE Some([id |-> vector_id, vector |-> <<>>, metadata |-> EmptyMetadata])

\* get_vector: the stored document as VectorData, None if client.get raises
\* (the request fails, or there is no document of that id).
index_get_vector(idx, vector_id, ok) ==
    IF ok /\ vector_id \in DOMAIN idx
    THEN Some([id |-> vector_id, vector |-> idx[vector_id].vector,
               metadata |-> idx[vector_id].metadata])
    ELSE None

\* The hit lists client.search may answer a k-NN query with: at most k
\* documents of the index, each once, in non-increasing order of score.
HitLists(idx, k) ==
    LET top == IF k < MaxHits THEN k ELSE MaxHits
    IN  UNION { { [i \in 1..n |->
                     [_id |-> h[i][1], _score |-> h[i][2],
                      _source |-> idx[h[i][1]]]] :
                  h \in { g \in [1..n -> (DOMAIN idx) \X Scores] :
                            /\ \A i, j \in 1..n : i < j =>
                                   /\ g[i][1] # g[j][1]
                                   /\ g[i][2] >= g[j][2] } } :
                n \in 0..top }

\* Variant: the results are returned in the reverse order of the hits.
index_search_vectors_reversed(hits, ok) ==
    IF ok
    THEN [i \in 1..Len(hits) |->
             [id |-> hits[Len(hits) + 1 - i]._id,
              score |-> hits[Len(hits) + 1 - i]._score,
              metadata |-> hits[Len(hits) + 1 - i]._source.metadata]]
    ELSE <<>>

\* search_vectors: one SearchResult per hit, in the order of the hits;
\* the empty list if client.search raises.
index_search_vectors(hits, ok) ==
    IF ok
    THEN [i \in 1..Len(hits) |->
             [id |-> hits[i]._id, score |-> hits[i]._score,
              metadata |-> hits[i]._source.metadata]]
    ELSE <<>>

-----------------------------------------------------------------------------
(* MetadataRepository *)

\* Variant: ON CONFLICT (id) DO NOTHING, an existing row is kept.
table_store_metadata_insert_only(tbl, vector_id, metadata, ok) ==
    IF ok /\ vector_id \notin DOMAIN tbl
    THEN Upsert(tbl, vector_id, json_dumps(metadata))
    ELSE tbl

\* store_metadata: INSERT ... ON CONFLICT (id) DO UPDATE of the row's
\* metadata column with json.dumps(metadata); nothing is written if the
\* connection or the statement raises.
table_store_metadata(tbl, vector_id, metadata, ok) ==
    IF ok THEN Upsert(tbl, vector_id, json_dumps(metadata)) ELSE tbl

\* get_metadata: json.loads of the row's metadata column; None if there is
\* no row or the connection or the statement raises.
table_get_metadata(tbl, vector_id, ok) ==
    IF ok /\ vector_id \in DOMAIN tbl
    THEN Some(json_loads(tbl[vector_id]))
    ELSE None

-----------------------------------------------------------------------------
(* VectorService *)

\* Variant: the outcome of the metadata upsert is ignored.
store_vector_result_index_only(vs, metadata_success) == vs

\* store_vector, line 290: the value returned.
store_vector_result(vs, metadata_success) == vs /\ metadata_success

\* Variant: the index's value wins on a key of both.
enrich_index_wins(vd, additional_metadata) ==
    IF additional_metadata # None /\ DOMAIN additional_metadata[1] # {}
    THEN [vd EXCEPT !.metadata = dict_update(additional_metadata[1], @)]
    ELSE vd

\* Variant: the metadata is replaced by what the table returned, by the
\* empty dict when it returned None.
enrich_replace(vd, additional_metadata) ==
    IF additional_metadata # None
    THEN [vd EXCEPT !.metadata = additional_metadata[1]]
    ELSE [vd EXCEPT !.metadata = EmptyMetadata]

\* get_vector, lines 302-303: a dict that is not empty is truthy, and then
\* updates the metadata of the record read from the index.
enrich(vd, additional_metadata) ==
    IF additional_metadata # None /\ DOMAIN additional_metadata[1] # {}
    THEN [vd EXCEPT !.metadata = dict_update(@, additional_metadata[1])]
    ELSE vd

\* A caller calls store_vector(vector_data).
VectorService_store_vector(c, r) ==
    Start(c, NoEvent, [op |-> "store", rec |-> r], "store_index", NoResponse)

\* store_vector, line 282: the upsert of the index.
vector_repo_store_vector(c, ok) ==
    /\ pc[c] = "store_index"
    /\ index' = index_store_vector(index, req[c].rec, ok)
    /\ vector_success' = [vector_success EXCEPT ![c] = ok]
    /\ Called(c, "vector_repo.store_vector", ok)
    /\ pc' = [pc EXCEPT ![c] = "store_metadata"]
    /\ UNCHANGED <<metaStore, event, req, vector_data, ret, response,
                   lastStore, blindWrite>>

\* store_vector, lines 285-290: the upsert of the metadata table, and the
\* return.
metadata_repo_store_metadata(c, ok) ==
    /\ pc[c] = "store_metadata"
    /\ metaStore' = table_store_metadata(metaStore, req[c].rec.id,
                                         req[c].rec.metadata, ok)
    /\ Called(c, "metadata_repo.store_metadata", ok)
    /\ LET success == store_vector_result(vector_success[c], ok)
       IN  Return(c, success, post_response(success, req[c].rec))
    /\ blindWrite' = (blindWrite \/ (ok /\ ~vector_success[c]))
    /\ UNCHANGED <<index, vector_success, vector_data>>

\* A caller calls get_vector(vector_id).
VectorService_get_vector(c, id) ==
    Start(c, NoEvent, [op |-> "get", id |-> id], "get_index", NoResponse)

\* get_vector, lines 298-299: the read of the index; without a record the
\* call returns None.
vector_repo_get_vector(c, ok) ==
    /\ pc[c] = "get_index"
    /\ Called(c, "vector_repo.get_vector", ok)
    /\ LET vd == index_get_vector(index, req[c].id, ok)
       IN  IF vd # None
           THEN /\ vector_data' = [vector_data EXCEPT ![c] = vd]
                /\ pc' = [pc EXCEPT ![c] = "get_metadata"]
                /\ UNCHANGED <<ret, response, event, req, lastStore>>
           ELSE /\ Return(c, None, NoResponse)
                /\ UNCHANGED vector_data
    /\ UNCHANGED <<index, metaStore, vector_success, blindWrite>>

\* get_vector, lines 301-304: the read of the metadata table, the merge and
\* the return.
metadata_repo_get_metadata(c, ok) ==
    /\ pc[c] = "get_metadata"
    /\ Called(c, "metadata_repo.get_metadata", ok)
    /\ LET additional_metadata == table_get_metadata(metaStore, req[c].id, ok)
       IN  Return(c, Some(enrich(vector_data[c][1], additional_metadata)),
                  NoResponse)
    /\ UNCHANGED <<index, metaStore, vector_success, vector_data,
                   blindWrite>>

\* A caller calls search_vectors(query).
VectorService_search_vectors(c, q) ==
    Start(c, NoEvent, [op |-> "search", query |-> q], "search_index",
          NoResponse)

\* search_vectors, line 294: the k-NN query of the index, and the return.
vector_repo_search_vectors(c, ok) ==
    /\ pc[c] = "search_index"
    /\ \E hits \in (IF ok THEN HitLists(index, req[c].query.k) ELSE {<<>>}) :
          LET results == index_search_vectors(hits, ok)
          IN  /\ portCalls' = [portCalls EXCEPT ![c] =
                    Append(@, [port |-> "vector_repo.search_vectors",
                               ok |-> ok, hits |-> hits])]
              /\ Return(c, results, get_response(results))
    /\ UNCHANGED <<index, metaStore, vector_success, vector_data,
                   blindWrite>>

-----------------------------------------------------------------------------
(* APIHandler *)

\* VectorData(id=body['id'], vector=body['vector'],
\*            metadata=body.get('metadata', {}))
VectorData(body) ==
    [id |-> body["id"], vector |-> body["vector"],
     metadata |-> IF "metadata" \in DOMAIN body THEN body["metadata"]
                  ELSE EmptyMetadata]

\* SearchQuery.k: Field(default=10, ge=1, le=100)
SearchQuery_k_valid(k) == K_MIN <= k /\ k <= K_MAX

_handle_post_request(c, ev) ==
    IF ~ev.body.json
    THEN Start(c, ev, NoReq, "done",
               _create_response(HTTP_BAD_REQUEST,
                   [error |-> "Invalid JSON in request body"]))
    ELSE IF "id" \notin DOMAIN ev.body.obj \/ "vector" \notin DOMAIN ev.body.obj
    THEN Start(c, ev, NoReq, "done",
               _create_response(HTTP_BAD_REQUEST,
                   [error |-> "Missing required fields: id and vector"]))
    ELSE Start(c, ev, [op |-> "store", rec |-> VectorData(ev.body.obj)],
               "store_index", NoResponse)

_handle_get_request(c, ev) ==
    IF ev.queryStringParameters = None
    THEN \* 'vector' in None raises TypeError: the outer except answers
         Start(c, ev, NoReq, "done",
               _create_response(HTTP_INTERNAL_SERVER_ERROR,
                   [error |-> "Internal server error"]))
    ELSE LET query_params == ev.queryStringParameters[1] IN
    IF "vector" \notin DOMAIN query_params
    THEN Start(c, ev, NoReq, "done",
               _create_response(HTTP_BAD_REQUEST,
                   [error |-> "Missing required parameter: vector"]))
    ELSE IF \/ query_params["vector"] \notin DOMAIN VectorTexts
            \/ /\ "k" \in DOMAIN query_params
               /\ query_params["k"] \notin DOMAIN IntTexts
    THEN Start(c, ev, NoReq, "done",
               _create_response(HTTP_BAD_REQUEST,
                   [error |-> "Invalid vector format or k parameter"]))
    ELSE LET query_vector == VectorTexts[query_params["vector"]]
             k == IF "k" \in DOMAIN query_params
                  THEN IntTexts[query_params["k"]] ELSE K_DEFAULT
         IN
    IF ~SearchQuery_k_valid(k)
    THEN \* SearchQuery raises ValidationError: the outer except answers
         Start(c, ev, NoReq, "done",
               _create_response(HTTP_INTERNAL_SERVER_ERROR,
                   [error |-> "Internal server error"]))
    ELSE Start(c, ev, [op |-> "search",
                       query |-> [vector |-> query_vector, k |-> k]],
               "search_index", NoResponse)

handle_request(c, ev) ==
    IF ev.httpMethod = "POST" THEN _handle_post_request(c, ev)
    ELSE IF ev.httpMethod = "GET" THEN _handle_get_request(c, ev)
    ELSE Start(c, ev, NoReq, "done",
               _create_response(HTTP_METHOD_NOT_ALLOWED,
                   [error |-> <<"Method", ev.httpMethod, "not allowed">>]))

-----------------------------------------------------------------------------
(* Specifications *)

Step(c) ==
    \/ \E r \in Records : VectorService_store_vector(c, r)
    \/ \E id \in Ids : VectorService_get_vector(c, id)
    \/ \E q \in SearchQueries : VectorService_search_vectors(c, q)
    \/ \E ev \in PostEvents : handle_request(c, ev)
    \/ \E ev \in GetEvents : handle_request(c, ev)
    \/ \E ev \in OtherEvents : handle_request(c, ev)
    \/ \E ok \in BOOLEAN : vector_repo_store_vector(c, ok)
    \/ \E ok \in BOOLEAN : metadata_repo_store_metadata(c, ok)
    \/ \E ok \in BOOLEAN : vector_repo_get_vector(c, ok)
    \/ \E ok \in BOOLEAN : metadata_repo_get_metadata(c, ok)
    \/ \E ok \in BOOLEAN : vector_repo_search_vectors(c, ok)

\* One caller, issuing one call after the other.
Next == Step(1)

Spec == Init /\ [][Next]_vars

\* VectorData accepts an empty id and an empty vector (Field(...) only makes
\* the fields required).  Records with one of them empty, and the POST
\* events carrying them; the repositories are handed the id as it is.
EmptyInputRecords ==
    { [id |-> "", vector |-> <<1, 2>>, metadata |-> [k \in {"title"} |-> "A"]],
      [id |-> "v1", vector |-> <<>>, metadata |-> [k \in {"title"} |-> "A"]] }
EmptyInputEvents ==
    { [httpMethod |-> "POST",
       body |-> [json |-> TRUE,
                 obj |-> [f \in {"id", "vector", "metadata"} |-> r[f]]]] :
         r \in EmptyInputRecords }

EmptyInputStep(c) ==
    \/ \E r \in EmptyInputRecords : VectorService_store_vector(c, r)
    \/ \E ev \in EmptyInputEvents : handle_request(c, ev)
    \/ \E ok \in BOOLEAN : vector_repo_store_vector(c, ok)
    \/ \E ok \in BOOLEAN : metadata_repo_store_metadata(c, ok)

\* One caller submitting records with an empty id or an empty vector.
NextEmptyInput == EmptyInputStep(1)

SpecEmptyInput == Init /\ [][NextEmptyInput]_vars

\* Two records of the same id that differ in vector and in metadata.
ConcurrentRecords ==
    { [id |-> "v1", vector |-> <<1, 2>>, metadata |-> [k \in {"title"} |-> "A"]],
      [id |-> "v1", vector |-> <<2, 1>>, metadata |-> [k \in {"title"} |-> "B"]] }

ConcurrentStep(c) ==
    \/ \E r \in ConcurrentRecords : VectorService_store_vector(c, r)
    \/ \E ok \in BOOLEAN : vector_repo_store_vector(c, ok)
    \/ \E ok \in BOOLEAN : metadata_repo_store_metadata(c, ok)

\* Two invocations of the handler run at the same time; nothing in
\* VectorService orders their repository calls.
NextConcurrent == \E c \in Callers : ConcurrentStep(c)

SpecConcurrent == Init /\ [][NextConcurrent]_vars

\* The caller's last call was store_vector and returned False.
Failed(c) == pc[c] = "done" /\ req[c].op = "store" /\ ret[c] = FALSE

\* The caller calls store_vector again with the record of the failed call.
RetryStore(c) ==
    /\ Failed(c)
    /\ VectorService_store_vector(c, req[c].rec)

\* A caller that answers every failed store_vector with a retry of the same
\* record, and starts other calls only when its last store did not fail.
RetryStep(c) ==
    \/ /\ ~Failed(c)
       /\ \E r \in ConcurrentRecords : VectorService_store_vector(c, r)
    \/ RetryStore(c)
    \/ /\ ~Failed(c)
       /\ \E r \in ConcurrentRecords : VectorService_get_vector(c, r.id)
    \/ \E ok \in BOOLEAN : vector_repo_store_vector(c, ok)
    \/ \E ok \in BOOLEAN : metadata_repo_store_metadata(c, ok)
    \/ \E ok \in BOOLEAN : vector_repo_get_vector(c, ok)
    \/ \E ok \in BOOLEAN : metadata_repo_get_metadata(c, ok)

NextRetry == RetryStep(1)

\* The caller does retry, and each repository's upsert, called again and
\* again, eventually succeeds.
FairRetry ==
    /\ WF_vars(RetryStore(1))
    /\ SF_vars(vector_repo_store_vector(1, TRUE))
    /\ SF_vars(metadata_repo_store_metadata(1, TRUE))

SpecRetry == Init /\ [][NextRetry]_vars /\ FairRetry

TypeOK ==
    /\ DOMAIN index \subseteq Ids
    /\ DOMAIN metaStore \subseteq Ids
    /\ \A c \in Callers :
          pc[c] \in {"idle", "done", "store_index", "store_metadata",
                     "get_index", "get_metadata", "search_index"}

-----------------------------------------------------------------------------
(* Vocabulary of the properties *)

IndexStore == "vector_repo.store_vector"
MetadataStore == "metadata_repo.store_metadata"
IndexGet == "vector_repo.get_vector"
MetadataGet == "metadata_repo.get_metadata"
IndexSearch == "vector_repo.search_vectors"

CallMade(calls, port) == \E i \in 1..Len(calls) : calls[i].port = port
CallOk(calls, port) ==
    \E i \in 1..Len(calls) : calls[i].port = port /\ calls[i].ok
CallFailed(calls, port) ==
    \E i \in 1..Len(calls) : calls[i].port = port /\ ~calls[i].ok

Done(c, op) == pc[c] = "done" /\ req[c].op = op

\* The document store_vector writes to the index for record r.
Document(r) == [vector |-> r.vector, metadata |-> r.metadata]

\* The caller's previous store_vector call was for id.
LastStoreFor(c, id) == lastStore[c] # None /\ lastStore[c][1].rec.id = id

\* That call upserted the index and failed to upsert the metadata table.
LastStorePartial(c) ==
    /\ lastStore[c] # None
    /\ CallOk(lastStore[c][1].calls, IndexStore)
    /\ CallFailed(lastStore[c][1].calls, MetadataStore)

\* What get_vector and search_vectors can observe of the two stores.
Observable ==
    <<index, [i \in DOMAIN metaStore |-> json_loads(metaStore[i])]>>

\* m is base overlaid with the members of the JSON text t.
IsOverlay(m, base, t) ==
    LET tkeys == {t[i][1] : i \in 1..Len(t)}
    IN  /\ DOMAIN m = DOMAIN base \cup tkeys
        /\ \A i \in 1..Len(t) : m[t[i][1]] = t[i][2]
        /\ \A k \in DOMAIN base \ tkeys : m[k] = base[k]

-----------------------------------------------------------------------------
(* C1 - C10 *)

\* C1: within a store_vector call, metadata_repo.store_metadata is called
\* only if the call's vector_repo.store_vector succeeded.
C1_MetadataOnlyAfterIndexSuccess ==
    \A c \in Callers :
        (req[c].op = "store" /\ CallMade(portCalls[c], MetadataStore))
            => CallOk(portCalls[c], IndexStore)

\* C2: no orphaned metadata: every id with a row in the metadata table has
\* a document in the index.
C2_NoOrphanedMetadata == DOMAIN metaStore \subseteq DOMAIN index

\* C3: store_vector returns True iff the index upsert and the metadata
\* upsert both succeeded, and False in every other case.
C3_SuccessIffBothSucceeded ==
    \A c \in Callers :
        Done(c, "store") =>
            /\ ret[c] \in BOOLEAN
            /\ ret[c] <=> (/\ CallOk(portCalls[c], IndexStore)
                           /\ CallOk(portCalls[c], MetadataStore))

C3_Witness ==
    /\ Done(1, "store") /\ ret[1] = TRUE
    /\ LastStorePartial(1) /\ lastStore[1][1].ret = FALSE

\* C4 as claimed: after a store_vector call whose index upsert succeeded and
\* whose metadata upsert failed, get_vector of the id returns the record
\* with exactly the metadata that call wrote to the index.  (Stated for
\* histories without a metadata write after a failed index upsert, and for
\* a get_vector whose read of the index succeeds.)
C4_GetAfterPartialFailureIsIndexOnly ==
    \A c \in Callers :
        (/\ Done(c, "get") /\ LastStoreFor(c, req[c].id) /\ LastStorePartial(c)
         /\ CallOk(portCalls[c], IndexGet)
         /\ ~blindWrite)
            => /\ lastStore[c][1].ret = FALSE
               /\ ret[c] = Some([id |-> req[c].id,
                                 vector |-> lastStore[c][1].rec.vector,
                                 metadata |-> lastStore[c][1].rec.metadata])

\* C4 amended: a store_vector call whose index upsert succeeded and whose
\* metadata upsert failed returns False and leaves its document in the
\* index; a following get_vector of the id whose read of the index succeeds
\* returns that call's vector, with that call's metadata overlaid with the
\* row the metadata table still holds for the id (the row wins on shared
\* keys), and with that call's metadata alone when the table has no row for
\* the id or its read fails.
C4_PartialFailureNoRollback ==
    \A c \in Callers :
        /\ (/\ Done(c, "store")
            /\ CallOk(portCalls[c], IndexStore)
            /\ CallFailed(portCalls[c], MetadataStore))
              => /\ ret[c] = FALSE
                 /\ req[c].rec.id \in DOMAIN index
                 /\ index[req[c].rec.id] = Document(req[c].rec)
        /\ (/\ Done(c, "get") /\ LastStoreFor(c, req[c].id)
            /\ LastStorePartial(c)
            /\ CallOk(portCalls[c], IndexGet))
              => /\ lastStore[c][1].ret = FALSE
                 /\ ret[c] # None
                 /\ ret[c][1].id = req[c].id
                 /\ ret[c][1].vector = lastStore[c][1].rec.vector
                 /\ IF /\ CallOk(portCalls[c], MetadataGet)
                       /\ req[c].id \in DOMAIN metaStore
                    THEN IsOverlay(ret[c][1].metadata,
                                   lastStore[c][1].rec.metadata,
                                   metaStore[req[c].id])
                    ELSE ret[c][1].metadata = lastStore[c][1].rec.metadata

\* A get_vector after a partial failure that returns stale metadata of an
\* earlier, successful store.
C4_Witness ==
    /\ Done(1, "get") /\ LastStoreFor(1, req[1].id) /\ LastStorePartial(1)
    /\ CallOk(portCalls[1], IndexGet) /\ CallOk(portCalls[1], MetadataGet)
    /\ ~blindWrite
    /\ req[1].id \in DOMAIN metaStore
    /\ ret[1] # None
    /\ ret[1][1].vector = lastStore[1][1].rec.vector
    /\ ret[1][1].metadata # lastStore[1][1].rec.metadata

\* C5: round trip: get_vector of r.id, with both reads succeeding, right
\* after a store_vector(r) that returned True, returns r's vector and r's
\* metadata, whatever the stores held before.
C5_StoreGetRoundTrip ==
    \A c \in Callers :
        (/\ Done(c, "get") /\ LastStoreFor(c, req[c].id)
         /\ lastStore[c][1].ret = TRUE
         /\ CallOk(portCalls[c], IndexGet)
         /\ CallOk(portCalls[c], MetadataGet))
            => ret[c] = Some(lastStore[c][1].rec)

C5_Witness ==
    /\ Done(1, "get") /\ LastStoreFor(1, req[1].id)
    /\ lastStore[1][1].ret = TRUE
    /\ CallOk(portCalls[1], IndexGet) /\ CallOk(portCalls[1], MetadataGet)
    /\ ret[1] = Some(lastStore[1][1].rec)
    /\ DOMAIN lastStore[1][1].rec.metadata = {"title"}
    /\ blindWrite

\* C6: store_vector is idempotent: when the caller's previous store_vector
\* call was for the same record and returned True, no successful upsert of
\* the repeated call changes what the two stores hold.
C6_StoreIdempotent ==
    [][\A c \in Callers :
          (/\ pc[c] \in {"store_index", "store_metadata"}
           /\ lastStore[c] # None
           /\ lastStore[c][1].rec = req[c].rec
           /\ lastStore[c][1].ret = TRUE
           /\ Len(portCalls'[c]) = Len(portCalls[c]) + 1
           /\ portCalls'[c][Len(portCalls'[c])].ok)
              => Observable' = Observable]_vars

C6_Witness ==
    /\ Done(1, "store") /\ ret[1] = TRUE
    /\ lastStore[1] # None
    /\ lastStore[1][1].rec = req[1].rec
    /\ lastStore[1][1].ret = TRUE
    /\ DOMAIN req[1].rec.metadata = Keys

\* C7: overlay merge: when get_vector finds the id in the index and the
\* metadata table returns a mapping for it, the metadata returned has the
\* keys of both, the table's value on every key of the table, the index's
\* value on the others.
C7_OverlayMerge ==
    \A c \in Callers :
        (/\ Done(c, "get")
         /\ CallOk(portCalls[c], IndexGet) /\ req[c].id \in DOMAIN index
         /\ CallOk(portCalls[c], MetadataGet)
         /\ req[c].id \in DOMAIN metaStore)
            => /\ ret[c] # None
               /\ IsOverlay(ret[c][1].metadata, index[req[c].id].metadata,
                            metaStore[req[c].id])

\* Index and table disagree on "title", and "tag" is in the index only.
C7_Witness ==
    /\ Done(1, "get")
    /\ CallOk(portCalls[1], IndexGet) /\ req[1].id \in DOMAIN index
    /\ CallOk(portCalls[1], MetadataGet) /\ req[1].id \in DOMAIN metaStore
    /\ DOMAIN index[req[1].id].metadata = {"title", "tag"}
    /\ metaStore[req[1].id] = <<<<"title", "A">>>>
    /\ index[req[1].id].metadata["title"] = "B"
    /\ ret[1][1].metadata["title"] = "A"
    /\ ret[1][1].metadata["tag"] = "A"

\* C8: best-effort enrichment: when get_vector finds the id in the index
\* and the read of the metadata table fails or finds no row, the record is
\* returned with the index's metadata unchanged.
C8_BestEffortEnrichment ==
    \A c \in Callers :
        (/\ Done(c, "get")
         /\ CallOk(portCalls[c], IndexGet) /\ req[c].id \in DOMAIN index
         /\ \/ CallFailed(portCalls[c], MetadataGet)
            \/ req[c].id \notin DOMAIN metaStore)
            => ret[c] = Some([id |-> req[c].id,
                              vector |-> index[req[c].id].vector,
                              metadata |-> index[req[c].id].metadata])

\* The read of the table fails while the table holds other metadata.
C8_Witness ==
    /\ Done(1, "get")
    /\ CallOk(portCalls[1], IndexGet) /\ req[1].id \in DOMAIN index
    /\ CallFailed(portCalls[1], MetadataGet)
    /\ req[1].id \in DOMAIN metaStore
    /\ json_loads(metaStore[req[1].id]) # index[req[1].id].metadata
    /\ ret[1] # None
    /\ ret[1][1].metadata = index[req[1].id].metadata
    /\ DOMAIN ret[1][1].metadata # {}

\* C9: get_vector returns None whenever the id has no document in the
\* index, whatever the metadata table holds; with a document and a
\* successful read of the index it returns a record.
C9_IndexDecidesExistence ==
    \A c \in Callers :
        Done(c, "get") =>
            /\ req[c].id \notin DOMAIN index => ret[c] = None
            /\ (req[c].id \in DOMAIN index /\ CallOk(portCalls[c], IndexGet))
                  => ret[c] # None

\* The table has a row for the id, the index has no document.
C9_Witness ==
    /\ Done(1, "get")
    /\ CallOk(portCalls[1], IndexGet)
    /\ req[1].id \notin DOMAIN index
    /\ req[1].id \in DOMAIN metaStore
    /\ ret[1] = None

\* C10: a search whose query of the index fails returns the empty list,
\* and the GET handler answers 200 with an empty results array.
C10_SearchFailureIsEmptyOk ==
    \A c \in Callers :
        (Done(c, "search") /\ CallFailed(portCalls[c], IndexSearch))
            => /\ ret[c] = <<>>
               /\ event[c].httpMethod = "GET"
                     => response[c] =
                            _create_response(HTTP_OK, [results |-> <<>>])

C10_Witness ==
    /\ Done(1, "search") /\ CallFailed(portCalls[1], IndexSearch)
    /\ event[1].httpMethod = "GET"
    /\ DOMAIN index # {}
    /\ ret[1] = <<>>
    /\ response[1].statusCode = HTTP_OK

-----------------------------------------------------------------------------
(* C11 - C17 *)

\* The hit list client.search answered the current search call with.
HitsOf(c) ==
    portCalls[c][CHOOSE i \in 1..Len(portCalls[c]) :
                    portCalls[c][i].port = IndexSearch].hits

\* C11: search_vectors returns the hits as the index returned them: as
\* many, in the same order, each with its id, its score and its metadata;
\* nothing is re-ranked, re-scored, filtered or padded up to k.
C11_SearchReturnsHitsAsIs ==
    \A c \in Callers :
        (Done(c, "search") /\ CallOk(portCalls[c], IndexSearch))
            => /\ Len(ret[c]) = Len(HitsOf(c))
               /\ \A i \in 1..Len(ret[c]) :
                     /\ ret[c][i].id = HitsOf(c)[i]._id
                     /\ ret[c][i].score = HitsOf(c)[i]._score
                     /\ ret[c][i].metadata = HitsOf(c)[i]._source.metadata

\* Fewer hits than k, with different scores, the first hit the best.
C11_Witness ==
    /\ Done(1, "search") /\ CallOk(portCalls[1], IndexSearch)
    /\ req[1].query.k = K_DEFAULT
    /\ Len(HitsOf(1)) = 2
    /\ Len(ret[1]) = 2
    /\ ret[1][1].id = "v2" /\ ret[1][2].id = "v1"
    /\ ret[1][1].score > ret[1][2].score

\* The integer the 'k' parameter of caller c's GET event parses to, if the
\* event has a well-formed vector and an integer k.
HasIntK(c) ==
    /\ event[c].httpMethod = "GET"
    /\ event[c].queryStringParameters # None
    /\ "vector" \in DOMAIN event[c].queryStringParameters[1]
    /\ event[c].queryStringParameters[1]["vector"] \in DOMAIN VectorTexts
    /\ "k" \in DOMAIN event[c].queryStringParameters[1]
    /\ event[c].queryStringParameters[1]["k"] \in DOMAIN IntTexts
IntK(c) == IntTexts[event[c].queryStringParameters[1]["k"]]

\* C12: a search request with k outside [1, 100] is answered with a 4xx
\* status and never reaches the index; with k = 1 or k = 100 it passes
\* validation and the index is queried with that k.
C12_KOutOfRangeIsInvalidInput ==
    \A c \in Callers :
        HasIntK(c) =>
            IF IntK(c) < K_MIN \/ IntK(c) > K_MAX
            THEN /\ req[c] = NoReq
                 /\ portCalls[c] = <<>>
                 /\ response[c].statusCode >= 400
                 /\ response[c].statusCode < 500
            ELSE /\ req[c].op = "search"
                 /\ req[c].query.k = IntK(c)

\* Caller c's current request is a store of a record with an empty id or
\* an empty vector, made directly or through POST.
EmptyRecordRequest(c) ==
    \/ /\ req[c].op = "store"
       /\ req[c].rec.id = "" \/ req[c].rec.vector = <<>>
    \/ /\ event[c].httpMethod = "POST"
       /\ event[c].body.json
       /\ {"id", "vector"} \subseteq DOMAIN event[c].body.obj
       /\ \/ event[c].body.obj["id"] = ""
          \/ event[c].body.obj["vector"] = <<>>

\* C13: a store request whose record has an empty id or an empty vector is
\* rejected as InvalidInput at once: no upsert of either store is
\* attempted, the call does not report success, and POST is answered 4xx.
C13_EmptyRecordRejected ==
    \A c \in Callers :
        EmptyRecordRequest(c) =>
            /\ portCalls[c] = <<>>
            /\ req[c].op = "store" /\ pc[c] = "done" => ret[c] = FALSE
            /\ event[c].httpMethod = "POST" /\ pc[c] = "done"
                  => /\ response[c].statusCode >= 400
                     /\ response[c].statusCode < 500

\* Caller c's current request is a POST whose body parsed as JSON.
PostOf(c) == event[c].httpMethod = "POST" /\ event[c].body.json

\* C14: a POST whose body lacks id or vector is answered 400 and makes no
\* repository call; a POST whose store_vector call returned False is
\* answered 500; one whose call returned True is answered 200 with a body
\* carrying the id of the request.
C14_PostStatusMapping ==
    \A c \in Callers :
        (PostOf(c) /\ pc[c] = "done") =>
            IF ~({"id", "vector"} \subseteq DOMAIN event[c].body.obj)
            THEN /\ response[c].statusCode = HTTP_BAD_REQUEST
                 /\ req[c] = NoReq
                 /\ portCalls[c] = <<>>
            ELSE /\ req[c].op = "store"
                 /\ IF ret[c]
                    THEN /\ response[c].statusCode = HTTP_OK
                         /\ response[c].body.id = event[c].body.obj["id"]
                    ELSE response[c].statusCode = HTTP_INTERNAL_SERVER_ERROR

C14_Witness ==
    /\ PostOf(1) /\ pc[1] = "done"
    /\ {"id", "vector"} \subseteq DOMAIN event[1].body.obj
    /\ event[1].body.obj["id"] = "v2"
    /\ ret[1] = TRUE
    /\ response[1].statusCode = HTTP_OK
    /\ response[1].body.id = "v2"
    /\ "v2" \in DOMAIN index /\ "v2" \in DOMAIN metaStore

\* In this step caller c's call of the given repository method completed
\* with success.
UpsertCompleted(c, port) ==
    /\ Len(portCalls'[c]) = Len(portCalls[c]) + 1
    /\ portCalls'[c][Len(portCalls'[c])].port = port
    /\ portCalls'[c][Len(portCalls'[c])].ok

\* Both callers finished a store call in which every repository call
\* succeeded.
BothStoredOk ==
    \A c \in Callers :
        /\ Done(c, "store")
        /\ CallOk(portCalls[c], IndexStore)
        /\ CallOk(portCalls[c], MetadataStore)

\* C15: with store calls running concurrently, an upsert that completes
\* at a repository sets that repository's entry of the id to the data of the
\* caller that made it, whatever the other caller did before (the last
\* upsert to complete wins, at each repository by itself); and two
\* concurrent calls whose repository calls all succeed both return True.
C15_LastUpsertWinsPerPort ==
    [][ /\ \A c \in Callers :
              /\ UpsertCompleted(c, IndexStore)
                    => /\ req[c].rec.id \in DOMAIN index'
                       /\ index'[req[c].rec.id] = Document(req[c].rec)
                       /\ metaStore' = metaStore
              /\ UpsertCompleted(c, MetadataStore)
                    => /\ req[c].rec.id \in DOMAIN metaStore'
                       /\ json_loads(metaStore'[req[c].rec.id])
                             = req[c].rec.metadata
                       /\ index' = index
        /\ BothStoredOk' => (ret'[1] = TRUE /\ ret'[2] = TRUE) ]_vars

\* The two calls overlapped, all four upserts succeeded, both returned
\* True, and the index holds the record of caller 1 while the metadata
\* table holds the metadata of caller 2.
C15_Witness ==
    /\ BothStoredOk
    /\ ret[1] = TRUE /\ ret[2] = TRUE
    /\ req[1].rec.id = req[2].rec.id
    /\ req[1].rec.vector # req[2].rec.vector
    /\ req[1].rec.metadata # req[2].rec.metadata
    /\ index[req[1].rec.id] = Document(req[1].rec)
    /\ json_loads(metaStore[req[2].rec.id]) = req[2].rec.metadata

\* Both stores hold the data of record r under r.id.
Reconciled(r) ==
    /\ r.id \in DOMAIN index /\ index[r.id] = Document(r)
    /\ r.id \in DOMAIN metaStore /\ json_loads(metaStore[r.id]) = r.metadata

\* Caller c's finished call is a store_vector that returned True and retried
\* the record of a call that had returned False.
RetrySucceeded(c) ==
    /\ Done(c, "store") /\ ret[c] = TRUE
    /\ lastStore[c] # None
    /\ lastStore[c][1].rec = req[c].rec
    /\ lastStore[c][1].ret = FALSE

\* When a retry returns True both stores hold the record, and a get_vector
\* that follows a store_vector that returned True and reads the index
\* returns that record.
RetrySafe ==
    \A c \in Callers :
        /\ RetrySucceeded(c) => Reconciled(req[c].rec)
        /\ (/\ Done(c, "get") /\ LastStoreFor(c, req[c].id)
            /\ lastStore[c][1].ret = TRUE
            /\ CallOk(portCalls[c], IndexGet))
              => ret[c] = Some(lastStore[c][1].rec)

\* C16: retry reconciles a partial failure: a retry of store_vector(r) that
\* returns True leaves both stores holding r, and get_vector then returns
\* r; and when each repository's upsert eventually succeeds, a caller that
\* retries a failed store_vector(r) eventually gets True with both stores
\* holding r.
C16_RetryReconciles ==
    /\ []RetrySafe
    /\ \A r \in ConcurrentRecords :
          (Failed(1) /\ req[1].rec = r)
              ~> (Done(1, "store") /\ req[1].rec = r /\ ret[1] = TRUE
                  /\ Reconciled(r))

\* Caller c took a step of a call.
Stepped(c) ==
    <<pc[c], req[c], portCalls[c]>>' # <<pc[c], req[c], portCalls[c]>>

\* The entries of every id but vector_id are the same in store s and in
\* store t.
SameButFor(s, t, vector_id) ==
    \A i \in (DOMAIN s \cup DOMAIN t) \ {vector_id} :
        i \in DOMAIN s /\ i \in DOMAIN t /\ s[i] = t[i]

\* C17: frame: no step of a get_vector or search_vectors call, whatever
\* the outcome of its reads, changes the index or the metadata table; a
\* step of a store_vector(r) call changes at most the entries of r.id and
\* leaves the entries of every other id in both stores as they were.
C17_Frame ==
    [][ \A c \in Callers :
            Stepped(c) =>
                /\ req'[c].op \in {"get", "search"}
                      => index' = index /\ metaStore' = metaStore
                /\ req'[c].op = "store"
                      => /\ SameButFor(index, index', req'[c].rec.id)
                         /\ SameButFor(metaStore, metaStore',
                                       req'[c].rec.id) ]_vars

\* store_vector of a record of "v2" returned True after a store_vector of
\* a record of "v1" had returned True, and both stores still hold the
\* data of "v1".
C17_Witness ==
    /\ Done(1, "store") /\ req[1].rec.id = "v2" /\ ret[1] = TRUE
    /\ LastStoreFor(1, "v1") /\ lastStore[1][1].ret = TRUE
    /\ Reconciled(lastStore[1][1].rec)
    /\ Reconciled(req[1].rec)

====
